---- MODULE Spec2Model ----
(***************************************************************************)
(* Model of forkd/core.py: the pre-forking process manager Forkd.          *)
(*                                                                         *)
(* The master process owns a registry of worker processes, relays every    *)
(* trapped signal as a line "<id> <pid>" through a pipe, and dispatches    *)
(* those lines sequentially in _loop.  Workers are forked children that    *)
(* inherit the signal handlers and the pipe, so a signal raised in a       *)
(* worker produces a line carrying the worker's pid.                       *)
(***************************************************************************)
EXTENDS Integers, Sequences, FiniteSets, TLC

VARIABLES
    status,         \* Forkd._status
    num_workers,    \* Forkd.num_workers (the target worker count)
    workers,        \* Forkd._workers: pid -> [status, written]
    procs,          \* the master's children as the OS sees them: pid -> "alive" | "zombie"
    sigpipe,        \* lines written to _signal_pipe and not yet read by _loop
    sigchld,        \* a SIGCHLD is pending for the master (not yet relayed)
    pc,             \* position of the master inside run()
    msg,            \* _loop's local msg: the line read last (NoLine before the first)
    arg,            \* the num_workers argument the object was constructed with
    worker_func,    \* Forkd.worker_func: what each unit of the work sequence does (or Opaque)
    runtime         \* the child side of _spawn_worker: pid -> [pc, pos, got, quit_at, code]

vars == <<status, num_workers, workers, procs, sigpipe, sigchld, pc, msg, arg,
          worker_func, runtime>>

----------------------------------------------------------------------------
(* Bounds *)

MaxPid == 3         \* worker pids are 1..MaxPid; the OS may reuse a reaped pid
MaxTarget == 3      \* add-worker signals are not raised beyond this target
MaxInit == 2        \* largest num_workers argument tried
MaxQueue == 2       \* lines that may wait in the signal pipe
MaxRaised == 1      \* of these, lines other than the master's child-exited line
MaxUnits == 3       \* longest work sequence tried

MasterPid == 0
PIDS == 1..MaxPid

----------------------------------------------------------------------------
(* Constants of the source *)

SIGNAL_IDS ==
    [n \in {"SIGCHLD", "SIGHUP", "SIGINT", "SIGQUIT", "SIGUSR1", "SIGUSR2", "SIGTERM"} |->
        CASE n = "SIGCHLD" -> "C"
          [] n = "SIGHUP"  -> "H"
          [] n = "SIGINT"  -> "I"
          [] n = "SIGQUIT" -> "Q"
          [] n = "SIGUSR1" -> "1"
          [] n = "SIGUSR2" -> "2"
          [] n = "SIGTERM" -> "T"]

SIGNAL_IDS_REV ==
    [c \in {SIGNAL_IDS[n] : n \in DOMAIN SIGNAL_IDS} |->
        CHOOSE n \in DOMAIN SIGNAL_IDS : SIGNAL_IDS[n] = c]

\* Number of WORKER_QUIT bytes one _shutdown_worker writes.
WORKER_QUIT == 1

----------------------------------------------------------------------------
(* Helpers *)

NoLine == [id |-> "", pid |-> MasterPid]

NoWorkers == [p \in {} |-> p]

Max(a, b) == IF a > b THEN a ELSE b

Remove(f, k) == [x \in DOMAIN f \ {k} |-> f[x]]

Zombies(ps) == {p \in DOMAIN ps : ps[p] = "zombie"}

Running(ws) == {p \in DOMAIN ws : ws[p].status = "running"}

\* The line a relay handler writes: '%s %s\n' % (signal_id, os.getpid()).
Line(signame, pid) == [id |-> SIGNAL_IDS[signame], pid |-> pid]

\* A work source the model does not look into: its workers terminate at any
\* time (WorkerExit).
Opaque == <<"opaque">>

\* Work sources that are looked into: the sequence made by worker_func
\* yields Len units and then raises StopIteration; a unit completes ("unit")
\* or raises ("raise", which ends the sequence).
WorkSources ==
    {u \in UNION {[1..n -> {"unit", "raise"}] : n \in 0..MaxUnits} :
        \A i \in 1..(Len(u) - 1) : u[i] = "unit"}

\* The child right after fork: at the top of its loop, no unit advanced, no
\* byte read; quit_at observes pos at the moment WORKER_QUIT is written to
\* its pipe (-1: not written), code is its exit status (-1: not exited).
NewRuntime == [pc |-> "read", pos |-> 0, got |-> 0, quit_at |-> -1, code |-> -1]

\* sys.exit(-1) as the parent sees it: status >> 8.
ExitFailure == 255

----------------------------------------------------------------------------
(* Registry operations *)

\* _shutdown_worker without the test of the record's status.
_shutdown_worker_unchecked(ws, pid) ==
    [ws EXCEPT ![pid] = [status |-> "shutdown", written |-> @.written + WORKER_QUIT]]

\* _shutdown_worker(pid), for a pid that has a record.
_shutdown_worker(ws, pid) ==
    IF ws[pid].status # "running"
    THEN ws
    ELSE [ws EXCEPT ![pid] = [status |-> "shutdown", written |-> @.written + WORKER_QUIT]]

RECURSIVE ShutdownEach(_, _)
ShutdownEach(ws, todo) ==
    IF todo = {} THEN ws
    ELSE LET pid == CHOOSE p \in todo : TRUE
         IN  ShutdownEach(_shutdown_worker(ws, pid), todo \ {pid})

\* _shutdown_workers(): every pid of the registry.
_shutdown_workers(ws) == ShutdownEach(ws, DOMAIN ws)

\* _respawn_workers stopping after the first running worker.
_respawn_workers_one(ws) ==
    IF Running(ws) = {}
    THEN ws
    ELSE _shutdown_worker(ws, CHOOSE p \in Running(ws) : TRUE)

\* _respawn_workers(): every record whose status is running.
_respawn_workers(ws) == ShutdownEach(ws, Running(ws))

\* _SIGCHLD's loop run as an if: one terminated child is collected.
Reap_once(ws, ps) ==
    IF DOMAIN ws = {} \/ Zombies(ps) = {}
    THEN [workers |-> ws, procs |-> ps, err |-> FALSE]
    ELSE LET pid == CHOOSE p \in Zombies(ps) : TRUE
         IN  [workers |-> Remove(ws, pid), procs |-> Remove(ps, pid), err |-> pid \notin DOMAIN ws]

\* The waitpid(-1, WNOHANG) loop of _SIGCHLD: pops the record of every
\* terminated child while the registry is not empty; err is the KeyError of
\* popping a pid that has no record.  The order in which waitpid returns the
\* terminated children does not change the result.
RECURSIVE Reap(_, _)
Reap(ws, ps) ==
    IF DOMAIN ws = {} \/ Zombies(ps) = {}
    THEN [workers |-> ws, procs |-> ps, err |-> FALSE]
    ELSE LET pid == CHOOSE p \in Zombies(ps) : TRUE
         IN  IF pid \notin DOMAIN ws
             THEN [workers |-> ws, procs |-> Remove(ps, pid), err |-> TRUE]
             ELSE Reap(Remove(ws, pid), Remove(ps, pid))

\* One fork short of the target.
SpawnCount_short(n, ws) == Max(n - Cardinality(DOMAIN ws) - 1, 0)

\* How many workers _spawn_workers forks.
SpawnCount(n, ws) == Max(n - Cardinality(DOMAIN ws), 0)

\* _spawn_workers(): fork SpawnCount children; the OS hands out any pids that
\* no live or unreaped process holds.
_spawn_workers(n, ws, ps) ==
    \E S \in SUBSET (PIDS \ DOMAIN ps) :
        /\ Cardinality(S) = SpawnCount(n, ws)
        /\ workers' = [p \in DOMAIN ws \cup S |->
                          IF p \in S THEN [status |-> "running", written |-> 0] ELSE ws[p]]
        /\ procs' = [p \in DOMAIN ps \cup S |-> IF p \in S THEN "alive" ELSE ps[p]]

\* An exception leaves the dispatch: _loop logs and re-raises, run() is left
\* without reaching the assignment of 'ended'.
Raise == pc' = "raised"

\* What a step of the master does to its children's side: a forked child
\* starts _spawn_worker's child branch, a reaped one is gone, and a byte
\* written by _shutdown_worker arrives in the pipe of a child at position pos.
Track ==
    /\ worker_func' = worker_func
    /\ runtime' =
          IF worker_func = Opaque
          THEN runtime
          ELSE [p \in DOMAIN procs' |->
                  IF p \notin DOMAIN procs \/ (procs[p] = "zombie" /\ procs'[p] = "alive")
                  THEN NewRuntime
                  ELSE IF /\ workers'[p].written > workers[p].written
                          /\ runtime[p].pc # "exited"
                          /\ runtime[p].quit_at = -1
                       THEN [runtime[p] EXCEPT !.quit_at = runtime[p].pos]
                       ELSE runtime[p]]

----------------------------------------------------------------------------
(* Initial state: Forkd(worker_func, num_workers) *)

Init ==
    /\ status = "None"
    /\ num_workers \in 0..MaxInit
    /\ arg = num_workers
    /\ workers = NoWorkers
    /\ procs = NoWorkers
    /\ sigpipe = << >>
    /\ sigchld = FALSE
    /\ pc = "new"
    /\ msg = NoLine
    /\ worker_func = Opaque
    /\ runtime = NoWorkers

\* The same object constructed with a work source that is looked into.
InitWork ==
    /\ status = "None"
    /\ num_workers \in 0..MaxInit
    /\ arg = num_workers
    /\ workers = NoWorkers
    /\ procs = NoWorkers
    /\ sigpipe = << >>
    /\ sigchld = FALSE
    /\ pc = "new"
    /\ msg = NoLine
    /\ worker_func \in WorkSources
    /\ runtime = NoWorkers

----------------------------------------------------------------------------
(* run() *)

\* run(), lines 46-47: status 'starting', then _setup creates the signal pipe
\* and installs the relay handlers.
run_setup ==
    /\ pc = "new"
    /\ status' = "starting"
    /\ sigpipe' = << >>
    /\ pc' = "setup"
    /\ UNCHANGED <<num_workers, workers, procs, sigchld, msg, arg, worker_func, runtime>>

\* run(), lines 48-49: spawn the workers, status 'running', enter _loop.
run_spawn ==
    /\ pc = "setup"
    /\ _spawn_workers(num_workers, workers, procs)
    /\ status' = "running"
    /\ pc' = "loop"
    /\ Track
    /\ UNCHANGED <<num_workers, sigpipe, sigchld, msg, arg>>

\* _loop leaving when no record is in status running any more.
run_ended_norunning ==
    /\ pc = "loop"
    /\ Running(workers) = {}
    /\ status' = "ended"
    /\ pc' = "done"
    /\ UNCHANGED <<num_workers, workers, procs, sigpipe, sigchld, msg, arg, worker_func, runtime>>

\* _loop's condition fails (the registry is empty): run() sets 'ended'.
run_ended ==
    /\ pc = "loop"
    /\ DOMAIN workers = {}
    /\ status' = "ended"
    /\ pc' = "done"
    /\ UNCHANGED <<num_workers, workers, procs, sigpipe, sigchld, msg, arg, worker_func, runtime>>

----------------------------------------------------------------------------
(* Signal handlers called by _loop *)

\* _shutdown_worker(from_pid) as a handler's else branch: the lookup raises
\* KeyError when from_pid has no record.
ShutdownFrom(from_pid) ==
    /\ IF from_pid \in DOMAIN workers
       THEN workers' = _shutdown_worker(workers, from_pid) /\ UNCHANGED pc
       ELSE Raise /\ UNCHANGED workers
    /\ UNCHANGED <<status, num_workers, procs>>

_shutdown ==
    IF status = "shutdown"
    THEN UNCHANGED <<status, num_workers, workers, procs, pc>>
    ELSE /\ status' = "shutdown"
         /\ num_workers' = 0
         /\ workers' = _shutdown_workers(workers)
         /\ UNCHANGED <<procs, pc>>

\* _add_worker without the call of _spawn_workers.
_add_worker_nospawn ==
    /\ num_workers' = num_workers + 1
    /\ UNCHANGED <<status, workers, procs, pc>>

_add_worker ==
    /\ num_workers' = num_workers + 1
    /\ _spawn_workers(num_workers + 1, workers, procs)
    /\ UNCHANGED <<status, pc>>

\* _remove_worker with the floor at 0 instead of 1.
_remove_worker_floor0 ==
    IF num_workers <= 0
    THEN UNCHANGED <<status, num_workers, workers, procs, pc>>
    ELSE /\ num_workers' = num_workers - 1
         /\ IF Running(workers) = {}
            THEN UNCHANGED workers
            ELSE \E pid \in Running(workers) : workers' = _shutdown_worker(workers, pid)
         /\ UNCHANGED <<status, procs, pc>>

\* _remove_worker without the break: every running record is shut down.
_remove_worker_nobreak ==
    IF num_workers <= 1
    THEN UNCHANGED <<status, num_workers, workers, procs, pc>>
    ELSE /\ num_workers' = num_workers - 1
         /\ workers' = _respawn_workers(workers)
         /\ UNCHANGED <<status, procs, pc>>

\* The loop over iteritems() stops at the first running record; which one
\* comes first is not determined by the program.
_remove_worker ==
    IF num_workers <= 1
    THEN UNCHANGED <<status, num_workers, workers, procs, pc>>
    ELSE /\ num_workers' = num_workers - 1
         /\ IF Running(workers) = {}
            THEN UNCHANGED workers
            ELSE \E pid \in Running(workers) : workers' = _shutdown_worker(workers, pid)
         /\ UNCHANGED <<status, procs, pc>>

\* _SIGCHLD without the closing call of _spawn_workers.
_SIGCHLD_nospawn(from_pid) ==
    LET r == Reap(workers, procs)
    IN  /\ workers' = r.workers
        /\ procs' = r.procs
        /\ IF r.err THEN Raise ELSE UNCHANGED pc
        /\ UNCHANGED <<status, num_workers>>

\* _SIGCHLD popping the record of a child that has not terminated.
_SIGCHLD_popalive(from_pid) ==
    \E pid \in DOMAIN workers :
        /\ workers' = Remove(workers, pid)
        /\ procs' = procs
        /\ UNCHANGED <<status, num_workers, pc>>

_SIGCHLD(from_pid) ==
    LET r == Reap(workers, procs)
    IN  IF r.err
        THEN /\ workers' = r.workers
             /\ procs' = r.procs
             /\ Raise
             /\ UNCHANGED <<status, num_workers>>
        ELSE /\ _spawn_workers(num_workers, r.workers, r.procs)
             /\ UNCHANGED <<status, num_workers, pc>>

\* _SIGHUP setting the status back to running when it respawns.
_SIGHUP_setsrunning(from_pid) ==
    IF from_pid = MasterPid
    THEN /\ workers' = _respawn_workers(workers)
         /\ status' = "running"
         /\ UNCHANGED <<num_workers, procs, pc>>
    ELSE ShutdownFrom(from_pid)

_SIGHUP(from_pid) ==
    IF from_pid = MasterPid
    THEN /\ workers' = _respawn_workers(workers)
         /\ UNCHANGED <<status, num_workers, procs, pc>>
    ELSE ShutdownFrom(from_pid)

_SIGINT(from_pid) ==
    IF from_pid = MasterPid THEN _shutdown ELSE ShutdownFrom(from_pid)

_SIGQUIT(from_pid) ==
    IF from_pid = MasterPid THEN _shutdown ELSE ShutdownFrom(from_pid)

_SIGTERM(from_pid) ==
    IF from_pid = MasterPid THEN _shutdown ELSE ShutdownFrom(from_pid)

\* _SIGUSR1 without the test of the origin.
_SIGUSR1_anyorigin(from_pid) == _add_worker

_SIGUSR1(from_pid) ==
    IF from_pid = MasterPid
    THEN _add_worker
    ELSE UNCHANGED <<status, num_workers, workers, procs, pc>>

_SIGUSR2(from_pid) ==
    IF from_pid = MasterPid
    THEN _remove_worker
    ELSE UNCHANGED <<status, num_workers, workers, procs, pc>>

----------------------------------------------------------------------------
(* _loop: one iteration reads one line and calls its handler *)

\* getattr(self, '_' + SIGNAL_IDS_REV[signal_id]): the handler of a signal.
getattr(signame, from_pid) ==
    CASE signame = "SIGCHLD" -> _SIGCHLD(from_pid)
      [] signame = "SIGHUP"  -> _SIGHUP(from_pid)
      [] signame = "SIGINT"  -> _SIGINT(from_pid)
      [] signame = "SIGQUIT" -> _SIGQUIT(from_pid)
      [] signame = "SIGTERM" -> _SIGTERM(from_pid)
      [] signame = "SIGUSR1" -> _SIGUSR1(from_pid)
      [] signame = "SIGUSR2" -> _SIGUSR2(from_pid)

_loop(signame) ==
    /\ pc = "loop"
    /\ DOMAIN workers # {}
    /\ sigpipe # << >>
    /\ SIGNAL_IDS_REV[Head(sigpipe).id] = signame
    /\ sigpipe' = Tail(sigpipe)
    /\ msg' = Head(sigpipe)
    /\ getattr(signame, Head(sigpipe).pid)
    /\ Track
    /\ UNCHANGED <<sigchld, arg>>

LoopSIGCHLD == _loop("SIGCHLD")
LoopSIGHUP  == _loop("SIGHUP")
LoopSIGINT  == _loop("SIGINT")
LoopSIGQUIT == _loop("SIGQUIT")
LoopSIGTERM == _loop("SIGTERM")
LoopSIGUSR1 == _loop("SIGUSR1")
LoopSIGUSR2 == _loop("SIGUSR2")

Dispatch ==
    \/ LoopSIGCHLD \/ LoopSIGHUP \/ LoopSIGINT \/ LoopSIGQUIT
    \/ LoopSIGTERM \/ LoopSIGUSR1 \/ LoopSIGUSR2

----------------------------------------------------------------------------
(* The environment: signals raised in the master or in a worker, and       *)
(* worker processes that terminate                                         *)

\* Add-worker lines of the master that wait in the pipe.
QueuedAdds ==
    Cardinality({i \in 1..Len(sigpipe) : sigpipe[i] = Line("SIGUSR1", MasterPid)})

\* Lines in the pipe other than the master's own child-exited line.
QueuedRaised ==
    Cardinality({i \in 1..Len(sigpipe) : sigpipe[i] # Line("SIGCHLD", MasterPid)})

\* The relay handler installed by _signal runs in process pid (the master or
\* a live worker, which inherited handler and pipe) and writes one line.
handler(signame, pid) ==
    /\ pc \in {"setup", "loop"}
    /\ pid = MasterPid \/ (pid \in DOMAIN procs /\ procs[pid] = "alive")
    /\ Len(sigpipe) < MaxQueue
    /\ QueuedRaised < MaxRaised
    /\ (signame = "SIGUSR1" /\ pid = MasterPid) => num_workers + QueuedAdds < MaxTarget
    /\ sigpipe' = Append(sigpipe, Line(signame, pid))
    /\ UNCHANGED <<status, num_workers, workers, procs, sigchld, pc, msg, arg, worker_func, runtime>>

\* A signal other than SIGCHLD is raised in the master.
SignalMaster ==
    \E signame \in DOMAIN SIGNAL_IDS \ {"SIGCHLD"} : handler(signame, MasterPid)

\* A signal is raised in a worker.
SignalWorker ==
    \E signame \in DOMAIN SIGNAL_IDS, pid \in PIDS : handler(signame, pid)

\* SIGCHLD is sent to the master although no child has terminated.
SpuriousSIGCHLD ==
    /\ pc \in {"setup", "loop"}
    /\ ~sigchld
    /\ sigchld' = TRUE
    /\ UNCHANGED <<status, num_workers, workers, procs, sigpipe, pc, msg, arg, worker_func, runtime>>

\* A worker process terminates for a reason of its own: its work sequence is
\* exhausted, a work unit raised, or it was killed.  The kernel marks a
\* SIGCHLD pending for the master.
WorkerExit(pid) ==
    /\ pid \in DOMAIN procs
    /\ procs[pid] = "alive"
    /\ procs' = [procs EXCEPT ![pid] = "zombie"]
    /\ sigchld' = TRUE
    /\ UNCHANGED <<status, num_workers, workers, sigpipe, pc, msg, arg, worker_func, runtime>>

\* A worker reads WORKER_QUIT from its control pipe at the top of its loop
\* and exits.
WorkerQuit(pid) ==
    /\ pid \in DOMAIN workers
    /\ workers[pid].written > 0
    /\ WorkerExit(pid)

\* The pending SIGCHLD is delivered: the master's relay handler writes its
\* line.  Exits that happened while it was pending share this one line.
RelaySIGCHLD ==
    /\ sigchld
    /\ Len(sigpipe) < MaxQueue
    /\ sigpipe' = Append(sigpipe, Line("SIGCHLD", MasterPid))
    /\ sigchld' = FALSE
    /\ UNCHANGED <<status, num_workers, workers, procs, pc, msg, arg, worker_func, runtime>>

----------------------------------------------------------------------------

Next ==
    \/ run_setup
    \/ run_spawn
    \/ run_ended
    \/ LoopSIGCHLD
    \/ LoopSIGHUP
    \/ LoopSIGINT
    \/ LoopSIGQUIT
    \/ LoopSIGTERM
    \/ LoopSIGUSR1
    \/ LoopSIGUSR2
    \/ SignalMaster
    \/ SignalWorker
    \/ SpuriousSIGCHLD
    \/ \E pid \in PIDS : WorkerExit(pid)
    \/ \E pid \in PIDS : WorkerQuit(pid)
    \/ RelaySIGCHLD

Spec == Init /\ [][Next]_vars

----------------------------------------------------------------------------
(* Specifications with a restricted or a fair environment *)

\* Only child-exited lines are ever written: workers terminate, SIGCHLD is
\* relayed, nothing else is raised.
NextChld ==
    \/ run_setup
    \/ run_spawn
    \/ run_ended
    \/ LoopSIGCHLD
    \/ SpuriousSIGCHLD
    \/ \E pid \in PIDS : WorkerExit(pid)
    \/ RelaySIGCHLD

SpecChld == Init /\ [][NextChld]_vars

----------------------------------------------------------------------------
(* The worker process: the child branch of _spawn_worker, lines 147-170     *)

\* sys.exit(code) in worker pid, whose runtime is rt: the process becomes a
\* zombie and the kernel marks a SIGCHLD pending for the master.
Exit(pid, rt, code) ==
    /\ procs' = [procs EXCEPT ![pid] = "zombie"]
    /\ sigchld' = TRUE
    /\ runtime' = [runtime EXCEPT ![pid] = [rt EXCEPT !.pc = "exited", !.code = code]]

\* worker_read ignoring what it reads.
worker_read_deaf(pid) ==
    /\ pid \in DOMAIN runtime
    /\ runtime[pid].pc = "read"
    /\ runtime' = [runtime EXCEPT ![pid].pc = "next"]
    /\ UNCHANGED <<procs, sigchld>>
    /\ UNCHANGED <<status, num_workers, workers, sigpipe, pc, msg, arg, worker_func>>

\* Top of the loop, lines 149-158: the non-blocking read of the control pipe
\* returns WORKER_QUIT if a byte is there (break, then sys.exit(0)) and
\* fails with EAGAIN otherwise (go on to the next unit).
worker_read(pid) ==
    /\ pid \in DOMAIN runtime
    /\ runtime[pid].pc = "read"
    /\ IF workers[pid].written > runtime[pid].got
       THEN Exit(pid, [runtime[pid] EXCEPT !.got = @ + 1], 0)
       ELSE /\ runtime' = [runtime EXCEPT ![pid].pc = "next"]
            /\ UNCHANGED <<procs, sigchld>>
    /\ UNCHANGED <<status, num_workers, workers, sigpipe, pc, msg, arg, worker_func>>

\* worker_next going on with the loop after a unit raised.
worker_next_goeson(pid) ==
    /\ pid \in DOMAIN runtime
    /\ runtime[pid].pc = "next"
    /\ LET pos == runtime[pid].pos
       IN  IF pos = Len(worker_func)
           THEN Exit(pid, runtime[pid], 0)
           ELSE /\ runtime' = [runtime EXCEPT ![pid].pos = pos + 1, ![pid].pc = "read"]
                /\ UNCHANGED <<procs, sigchld>>
    /\ UNCHANGED <<status, num_workers, workers, sigpipe, pc, msg, arg, worker_func>>

\* worker_next leaving the loop one unit early.
worker_next_early(pid) ==
    /\ pid \in DOMAIN runtime
    /\ runtime[pid].pc = "next"
    /\ LET pos == runtime[pid].pos
       IN  IF pos + 1 >= Len(worker_func)
           THEN Exit(pid, runtime[pid], 0)
           ELSE /\ runtime' = [runtime EXCEPT ![pid].pos = pos + 1, ![pid].pc = "read"]
                /\ UNCHANGED <<procs, sigchld>>
    /\ UNCHANGED <<status, num_workers, workers, sigpipe, pc, msg, arg, worker_func>>

\* worker.next(), lines 159-166 and 168-170: StopIteration breaks the loop
\* (sys.exit(0)); another exception is logged and the worker exits with
\* sys.exit(-1); otherwise the unit is done and the loop starts over.
worker_next(pid) ==
    /\ pid \in DOMAIN runtime
    /\ runtime[pid].pc = "next"
    /\ LET pos == runtime[pid].pos
       IN  IF pos = Len(worker_func)
           THEN Exit(pid, runtime[pid], 0)
           ELSE IF worker_func[pos + 1] = "raise"
           THEN Exit(pid, runtime[pid], ExitFailure)
           ELSE /\ runtime' = [runtime EXCEPT ![pid].pos = pos + 1, ![pid].pc = "read"]
                /\ UNCHANGED <<procs, sigchld>>
    /\ UNCHANGED <<status, num_workers, workers, sigpipe, pc, msg, arg, worker_func>>

\* Signals raised in the master while the workers' loops are looked into.
WorkSignals == {"SIGINT", "SIGUSR2"}

SignalWork == \E signame \in WorkSignals : handler(signame, MasterPid)

\* The master with workers that run the loop of _spawn_worker over a work
\* source from WorkSources.
NextWork ==
    \/ run_setup
    \/ run_spawn
    \/ run_ended
    \/ LoopSIGCHLD
    \/ LoopSIGINT
    \/ LoopSIGUSR2
    \/ SignalWork
    \/ RelaySIGCHLD
    \/ \E pid \in PIDS : worker_read(pid)
    \/ \E pid \in PIDS : worker_next(pid)

SpecWork == InitWork /\ [][NextWork]_vars

----------------------------------------------------------------------------
(* More specifications with a restricted or a fair environment *)

\* The only signal raised is the master's hangup; workers terminate and
\* SIGCHLD is relayed.
HangupMaster == handler("SIGHUP", MasterPid)

NextHup ==
    \/ run_setup
    \/ run_spawn
    \/ run_ended
    \/ LoopSIGCHLD
    \/ LoopSIGHUP
    \/ HangupMaster
    \/ \E pid \in PIDS : WorkerExit(pid)
    \/ RelaySIGCHLD

SpecHup == Init /\ [][NextHup]_vars

\* The master keeps executing run(): readline returns once a line is in the
\* pipe; the kernel delivers a pending SIGCHLD; a worker whose control pipe
\* holds WORKER_QUIT reads it at the top of its loop and exits.
FairSpec ==
    /\ Spec
    /\ WF_vars(run_setup)
    /\ WF_vars(run_spawn)
    /\ WF_vars(run_ended)
    /\ WF_vars(Dispatch)
    /\ WF_vars(RelaySIGCHLD)
    /\ \A pid \in PIDS : WF_vars(WorkerQuit(pid))

\* The same for the hangup-only environment.
FairHup ==
    /\ SpecHup
    /\ WF_vars(run_setup)
    /\ WF_vars(run_spawn)
    /\ WF_vars(run_ended)
    /\ WF_vars(Dispatch)
    /\ WF_vars(RelaySIGCHLD)
    /\ \A pid \in PIDS : WF_vars(WorkerQuit(pid))

\* Master and kernel as in FairSpec; the scheduler lets every worker run
\* and every work unit returns or raises.
FairWork ==
    /\ SpecWork
    /\ WF_vars(run_setup)
    /\ WF_vars(run_spawn)
    /\ WF_vars(run_ended)
    /\ WF_vars(Dispatch)
    /\ WF_vars(RelaySIGCHLD)
    /\ \A pid \in PIDS : WF_vars(worker_read(pid)) /\ WF_vars(worker_next(pid))

----------------------------------------------------------------------------
(* Helpers of the properties *)

\* This step is the _loop iteration that reads the line of signame from pid.
Reads(signame, pid) ==
    /\ pc = "loop"
    /\ sigpipe # << >>
    /\ Head(sigpipe) = Line(signame, pid)
    /\ sigpipe' = Tail(sigpipe)

\* This step is _shutdown() called for a self-originated line.
ReadsShutdown ==
    \E signame \in {"SIGINT", "SIGQUIT", "SIGTERM"} : Reads(signame, MasterPid)

\* The step forks a process: a pid that was free or a zombie is alive after it.
Forks ==
    \E p \in DOMAIN procs' :
        procs'[p] = "alive" /\ (p \in DOMAIN procs => procs[p] = "zombie")

----------------------------------------------------------------------------
(* C1: once supervisor-wide shutdown has begun, num_workers is 0 in every   *)
(* later state and no step forks a worker any more, whatever lines are      *)
(* dispatched afterwards.                                                   *)
C1_NoTargetNoSpawnAfterShutdown ==
    [][status = "shutdown" => (num_workers' = 0 /\ ~Forks)]_vars

(* C2: graceful shutdown completes: after a self-originated interrupt,      *)
(* quit or terminate is dispatched, under the fair scheduling of FairSpec   *)
(* the registry becomes empty, the loop exits and status becomes ended.     *)
C2_ShutdownCompletes ==
    (status = "shutdown") ~> (status = "ended" /\ DOMAIN workers = {})

----------------------------------------------------------------------------
(* More helpers of the properties *)

ReadsChld == \E from_pid \in {MasterPid} \cup PIDS : Reads("SIGCHLD", from_pid)

Fresh == [status |-> "running", written |-> 0]

\* Process p was forked by this step.
Forked(p) ==
    /\ p \in DOMAIN procs' /\ procs'[p] = "alive"
    /\ p \in DOMAIN procs => procs[p] = "zombie"

\* Records that this step takes from running to shutdown.
Marked ==
    {p \in DOMAIN workers \cap DOMAIN workers' :
        workers[p].status = "running" /\ workers'[p].status = "shutdown"}

\* Control bytes written so far to the channels of the records of ws.
RECURSIVE SumWritten(_, _)
SumWritten(ws, todo) ==
    IF todo = {} THEN 0
    ELSE LET p == CHOOSE q \in todo : TRUE
         IN  ws[p].written + SumWritten(ws, todo \ {p})

Written(ws) == SumWritten(ws, DOMAIN ws)

ShutdownLines == {Line(signame, MasterPid) : signame \in {"SIGINT", "SIGQUIT", "SIGTERM"}}

----------------------------------------------------------------------------
(* C3: shutdown is idempotent: no record is ever written the control byte   *)
(* more than once, and a supervisor shutdown dispatched while status is     *)
(* already shutdown changes neither status, target, registry nor any        *)
(* control channel.                                                         *)
C3_ShutdownIdempotent ==
    [][ /\ \A p \in DOMAIN workers' : workers'[p].written <= 1
        /\ (ReadsShutdown /\ status = "shutdown")
              => UNCHANGED <<status, num_workers, workers, procs, pc>> ]_vars

\* A second shutdown has been dispatched: the first one set the target to 0,
\* an add-worker raised it, and the line read last is a shutdown line.
C3_SecondShutdownDispatched ==
    /\ status = "shutdown"
    /\ msg \in ShutdownLines
    /\ num_workers > 0
    /\ \E p \in DOMAIN workers : workers[p].written = 1

(* C5 as stated: while status is running (started with target >= 1) the     *)
(* registry holds at least one record whose status is running.              *)
C5_OneRunningRecord ==
    (status = "running" /\ arg >= 1) => Running(workers) # {}

(* C5 amended: while status is running (started with target >= 1) the       *)
(* target is at least 1 and the registry holds at least one record; the     *)
(* record's status may be shutdown.                                         *)
C5_RegistryNotEmpty ==
    (status = "running" /\ arg >= 1) => (num_workers >= 1 /\ DOMAIN workers # {})

\* After a self-originated hangup every record is in status shutdown.
C5_AllMarkedWhileRunning ==
    /\ status = "running"
    /\ arg >= 1
    /\ pc = "loop"
    /\ msg = Line("SIGHUP", MasterPid)
    /\ DOMAIN workers # {}
    /\ Running(workers) = {}

(* C6: remove_worker() with num_workers <= 1 changes nothing, and no        *)
(* remove-worker dispatch takes a target that is at least 1 below 1.        *)
C6_RemoveWorkerFloor ==
    [][ Reads("SIGUSR2", MasterPid) =>
          /\ num_workers <= 1 => UNCHANGED <<status, num_workers, workers, procs, pc>>
          /\ num_workers >= 1 => num_workers' >= 1 ]_vars

\* The line read last is a remove-worker request that found the target at 1:
\* a decrementing request would have left a record in status shutdown.
C6_RemoveAtFloorDispatched ==
    /\ status = "running"
    /\ msg = Line("SIGUSR2", MasterPid)
    /\ num_workers = 1
    /\ DOMAIN workers # {}
    /\ \A p \in DOMAIN workers : workers[p] = Fresh

(* C7 as stated: every remove_worker() that decrements the target takes     *)
(* exactly one record from running to shutdown and writes exactly one       *)
(* control byte.                                                            *)
C7_RemoveMarksExactlyOne ==
    [][ (Reads("SIGUSR2", MasterPid) /\ num_workers > 1) =>
          /\ Cardinality(Marked) = 1
          /\ Written(workers') = Written(workers) + 1 ]_vars

(* C7 amended: every remove_worker() that decrements the target marks at    *)
(* most one record: exactly one (one byte written) when some record is in   *)
(* status running, none (no byte written) when no record is; every other    *)
(* record is unchanged.                                                     *)
C7_RemoveMarksOneIfAny ==
    [][ (Reads("SIGUSR2", MasterPid) /\ num_workers > 1) =>
          /\ num_workers' = num_workers - 1
          /\ DOMAIN workers' = DOMAIN workers
          /\ Cardinality(Marked) = (IF Running(workers) = {} THEN 0 ELSE 1)
          /\ Written(workers') = Written(workers) + Cardinality(Marked)
          /\ \A p \in DOMAIN workers \ Marked : workers'[p] = workers[p] ]_vars

\* A decrementing remove-worker has marked one of two workers.
C7_OneOfTwoMarked ==
    /\ status = "running"
    /\ msg = Line("SIGUSR2", MasterPid)
    /\ arg = 2
    /\ num_workers = 1
    /\ Cardinality(DOMAIN workers) = 2
    /\ Cardinality(Running(workers)) = 1
    /\ Written(workers) = 1

(* C9: an add_worker() performed while status is running and the registry   *)
(* size equals the target raises target and registry size by one, adds one  *)
(* record in status running and leaves the existing records unchanged.      *)
C9_AddWorkerScalesUp ==
    [][ (Reads("SIGUSR1", MasterPid) /\ status = "running"
            /\ Cardinality(DOMAIN workers) = num_workers) =>
          /\ num_workers' = num_workers + 1
          /\ Cardinality(DOMAIN workers') = num_workers + 1
          /\ \A p \in DOMAIN workers :
                p \in DOMAIN workers' /\ workers'[p] = workers[p] /\ procs'[p] = procs[p]
          /\ \A p \in DOMAIN workers' \ DOMAIN workers :
                workers'[p] = Fresh /\ Forked(p) ]_vars

\* Started with count 1, two add-worker requests later: size and target 3.
C9_TwoAddsFromOne ==
    /\ status = "running"
    /\ msg = Line("SIGUSR1", MasterPid)
    /\ arg = 1
    /\ num_workers = 3
    /\ Cardinality(DOMAIN workers) = 3
    /\ \A p \in DOMAIN workers : workers[p] = Fresh

(* C10: every live worker process has a record; a record is removed only    *)
(* by the dispatch of a child-exited line and only when its process has     *)
(* terminated; every terminated, unreaped child has a record, so the reap   *)
(* never pops a pid without one.                                            *)
C10_RegistryTracksProcesses ==
    [][ /\ \A p \in DOMAIN procs' : p \in DOMAIN workers'
        /\ \A p \in DOMAIN workers :
              (p \notin DOMAIN workers' \/ Forked(p))
                 => (ReadsChld /\ p \in DOMAIN procs /\ procs[p] = "zombie")
        /\ ReadsChld => pc' = "loop" ]_vars

\* One of two workers has been reaped during shutdown.
C10_OneOfTwoReaped ==
    /\ status = "shutdown"
    /\ msg = Line("SIGCHLD", MasterPid)
    /\ arg = 2
    /\ num_workers = 0
    /\ Cardinality(DOMAIN workers) = 1
    /\ \A p \in DOMAIN workers : procs[p] = "alive"

----------------------------------------------------------------------------
\* The record of every child that had terminated is gone after the step (a
\* record under the same pid belongs to a process forked by the step).
DeadRemoved ==
    \A z \in Zombies(procs) :
        z \notin DOMAIN workers' \/ (Forked(z) /\ workers'[z] = Fresh)

\* A child-exited notification is on its way to the loop.
ChldNotified(flag, pipe) ==
    flag \/ \E i \in 1..Len(pipe) : pipe[i].id = SIGNAL_IDS["SIGCHLD"]

(* C4 as stated: the child-exited dispatch that reaps terminated workers    *)
(* while status is running leaves the registry size at num_workers, with    *)
(* the dead records removed and a fresh record in status running.           *)
C4_ReapRestoresTarget ==
    [][ (Reads("SIGCHLD", MasterPid) /\ status = "running" /\ Zombies(procs) # {}) =>
          /\ Zombies(procs') = {}
          /\ DeadRemoved
          /\ Cardinality(DOMAIN workers') = num_workers'
          /\ \E p \in DOMAIN workers' : Forked(p) /\ workers'[p] = Fresh ]_vars

(* C4 amended: a terminated worker is never left without a pending          *)
(* child-exited notification while the loop runs, and the child-exited      *)
(* dispatch that follows reaps every terminated worker (also several at     *)
(* once); while status is running it leaves the registry at the larger of   *)
(* num_workers and the number of surviving records, the survivors           *)
(* unchanged and every added record fresh in status running, so the size    *)
(* is back at num_workers whenever no more than num_workers records         *)
(* survive, and a fresh record appears only when fewer survive.             *)
C4_ReapSelfHeals ==
    [][ /\ (pc' = "loop" /\ Zombies(procs') # {}) => ChldNotified(sigchld', sigpipe')
        /\ (ReadsChld /\ Zombies(procs) # {}) =>
              LET survivors == DOMAIN workers \ Zombies(procs)
              IN  /\ Zombies(procs') = {}
                  /\ DeadRemoved
                  /\ pc' = "loop"
                  /\ status = "running" =>
                        /\ Cardinality(DOMAIN workers')
                              = Max(num_workers, Cardinality(survivors))
                        /\ \A p \in survivors :
                              p \in DOMAIN workers' /\ workers'[p] = workers[p]
                        /\ \A p \in DOMAIN workers' \ survivors :
                              Forked(p) /\ workers'[p] = Fresh ]_vars

\* Started with 2, scaled down to 1: one record has been reaped (the registry
\* shrank), the line read last is the child-exited line, and the pool is at
\* its target with a live worker in status running.
C4_PoolAtTargetAfterReap ==
    /\ status = "running"
    /\ pc = "loop"
    /\ msg = Line("SIGCHLD", MasterPid)
    /\ arg = 2
    /\ num_workers = 1
    /\ Cardinality(DOMAIN workers) = 1
    /\ \A p \in DOMAIN workers : workers[p] = Fresh /\ procs[p] = "alive"

(* C8: started with target N >= 1 and with only child-exited lines          *)
(* dispatched, after the initial spawn and after every dispatch the         *)
(* registry holds exactly N records, all in status running (and, right      *)
(* after a dispatch, all of live processes); a dispatch that finds the      *)
(* registry at target with nothing to reap spawns nothing.                  *)
C8_PoolHeldAtTarget ==
    [][ /\ (pc' = "loop" /\ arg >= 1) =>
              /\ num_workers' = arg
              /\ Cardinality(DOMAIN workers') = arg
              /\ Running(workers') = DOMAIN workers'
        /\ ReadsChld => \A p \in DOMAIN workers' : procs'[p] = "alive"
        /\ (ReadsChld /\ Zombies(procs) = {}
               /\ Cardinality(DOMAIN workers) = num_workers)
              => UNCHANGED <<workers, procs>> ]_vars

\* Started with 2, a child-exited line has been dispatched, 2 live workers.
C8_TwoAfterDispatch ==
    /\ status = "running"
    /\ pc = "loop"
    /\ msg = Line("SIGCHLD", MasterPid)
    /\ arg = 2
    /\ Cardinality(DOMAIN workers) = 2
    /\ \A p \in DOMAIN workers : procs[p] = "alive"

----------------------------------------------------------------------------
\* The dispatch of the master's hangup writes one byte to every running
\* worker and marks it; nothing else changes.
HangupEffect ==
    [][ Reads("SIGHUP", MasterPid) =>
          /\ workers' = [p \in DOMAIN workers |->
                           IF workers[p].status = "running"
                           THEN [status |-> "shutdown",
                                 written |-> workers[p].written + WORKER_QUIT]
                           ELSE workers[p]]
          /\ UNCHANGED <<status, num_workers, procs, pc>> ]_vars

\* The line dispatched last is the master's hangup.
HangupDispatched == pc = "loop" /\ msg = Line("SIGHUP", MasterPid)

\* The registry holds num_workers records, all forked since the last
\* hangup (running, no byte written).
Restarted ==
    /\ Cardinality(DOMAIN workers) = num_workers
    /\ \A p \in DOMAIN workers : workers[p] = Fresh

\* When hangups stop being raised, each dispatched hangup is followed by a
\* restarted pool.
HangupRestarts ==
    (<>[](QueuedRaised = 0)) => (HangupDispatched ~> Restarted)

\* No worker forked by a reap gets the pid of a worker that was sent the byte.
NoMarkedPidReused ==
    [][ ReadsChld =>
          \A p \in DOMAIN workers :
              workers[p].status = "shutdown" => ~Forked(p) ]_vars

(* C11 as stated: the master's hangup writes the byte to every running      *)
(* worker and leaves status and num_workers unchanged; workers exiting      *)
(* after the byte, the registry eventually holds num_workers running        *)
(* records again, none under a pid that was registered when the hangup      *)
(* was dispatched.                                                          *)
C11_RestartWithNewPids ==
    /\ HangupEffect
    /\ HangupRestarts
    /\ NoMarkedPidReused

(* C11 amended: the same, the records of the restarted pool being those of  *)
(* processes forked after the hangup (each record that was registered at    *)
(* the hangup has been reaped); a new process may have the pid of a         *)
(* reaped one.                                                              *)
C11_RestartWithNewProcesses ==
    /\ HangupEffect
    /\ HangupRestarts

\* Two workers were sent the byte by a hangup; one has been reaped and
\* replaced, the other is still registered.
C11_RestartInProgress ==
    /\ status = "running"
    /\ pc = "loop"
    /\ arg = 2
    /\ msg = Line("SIGCHLD", MasterPid)
    /\ \E p, q \in DOMAIN workers :
          /\ workers[p] = Fresh
          /\ procs[p] = "alive"
          /\ workers[q] = [status |-> "shutdown", written |-> 1]

\* Signals whose handler calls _shutdown_worker(from_pid) for a worker's line.
WorkerShutdownSignals == {"SIGHUP", "SIGINT", "SIGQUIT", "SIGTERM"}

\* This step reads a worker-originated hangup, interrupt, quit or terminate.
ReadsWorkerShutdown ==
    \E signame \in WorkerShutdownSignals, pid \in PIDS : Reads(signame, pid)

(* C12: the dispatch of a worker-originated interrupt, quit, terminate or   *)
(* hangup leaves the originating worker's record in status shutdown with    *)
(* one control byte written, and changes neither the supervisor's status,   *)
(* num_workers, nor any other record or process; the dispatch completes.    *)
C12_WorkerSignalShutsDownThatWorker ==
    [][ ReadsWorkerShutdown =>
          LET from_pid == Head(sigpipe).pid
          IN  /\ from_pid \in DOMAIN workers'
              /\ workers'[from_pid] = [status |-> "shutdown", written |-> 1]
              /\ DOMAIN workers' = DOMAIN workers
              /\ \A p \in DOMAIN workers \ {from_pid} : workers'[p] = workers[p]
              /\ UNCHANGED <<status, num_workers, procs, pc>> ]_vars

(* C13: the dispatch of a worker-originated add-worker or remove-worker     *)
(* line changes neither num_workers, the registry, any record's status,     *)
(* any control channel nor the supervisor's status.                         *)
C13_WorkerScalingIgnored ==
    [][ (\E signame \in {"SIGUSR1", "SIGUSR2"}, pid \in PIDS : Reads(signame, pid))
          => UNCHANGED <<status, num_workers, workers, procs, pc>> ]_vars

\* A worker's add-worker line has been dispatched while the pool was whole.
C13_WorkerAddDispatched ==
    /\ status = "running"
    /\ pc = "loop"
    /\ msg.id = SIGNAL_IDS["SIGUSR1"]
    /\ msg.pid \in DOMAIN workers
    /\ Cardinality(DOMAIN workers) = num_workers
    /\ num_workers = arg

\* Position of a status in starting -> running -> shutdown -> ended.
Rank(st) ==
    CASE st = "None"     -> 0
      [] st = "starting" -> 1
      [] st = "running"  -> 2
      [] st = "shutdown" -> 3
      [] st = "ended"    -> 4

(* C17: status never moves back along starting -> running -> shutdown ->    *)
(* ended, whatever lines are dispatched.                                    *)
C17_StatusMonotonic ==
    [][Rank(status') >= Rank(status)]_vars

\* A hangup has been dispatched during shutdown and status is still shutdown.
C17_HangupDuringShutdown ==
    /\ status = "shutdown"
    /\ msg = Line("SIGHUP", MasterPid)
    /\ DOMAIN workers # {}

(* C18: whenever status is ended the registry is empty and none of the      *)
(* master's children is alive or unreaped.                                  *)
C18_EndedMeansNoWorkers ==
    status = "ended" => (DOMAIN workers = {} /\ DOMAIN procs = {})

\* run() has returned after supervising two workers.
C18_EndedAfterTwoWorkers ==
    /\ status = "ended"
    /\ pc = "done"
    /\ arg = 2
    /\ msg.id = SIGNAL_IDS["SIGCHLD"]

(* C19: every worker-originated hangup, interrupt, quit or terminate line   *)
(* is dispatched while its origin pid has a record, and the dispatch does   *)
(* not raise.                                                               *)
C19_WorkerLineFindsRecord ==
    [][ ReadsWorkerShutdown =>
          (Head(sigpipe).pid \in DOMAIN workers /\ pc' = "loop") ]_vars

(* C20: started with a target of at least 1, the control loop is left (its *)
(* condition fails, or the dispatch raises out of it) and status becomes    *)
(* ended only after status shutdown was entered: while status is running,   *)
(* workers that finish or crash are replaced and run() goes on.             *)
C20_LoopLeftOnlyAfterShutdown ==
    [][ (arg >= 1 /\ pc = "loop" /\ (pc' # "loop" \/ status' = "ended"))
          => status = "shutdown" ]_vars

----------------------------------------------------------------------------
\* No unit of the work sequence raises.
NoUnitFails == \A i \in 1..Len(worker_func) : worker_func[i] = "unit"

\* WORKER_QUIT was written to worker p's pipe while p was running.
SentQuit(p) == p \in DOMAIN runtime /\ runtime[p].quit_at >= 0

\* Worker p has terminated and has not been reaped yet.
Exited(p) == p \in DOMAIN runtime /\ runtime[p].pc = "exited"

(* C14: a worker that is sent the control byte while at least two units     *)
(* remain, no unit failing, advances at most one further unit after the     *)
(* byte was written, then reads the byte and exits with status 0 before     *)
(* its sequence is exhausted; and it does stop.                             *)
C14_ForcedStop ==
    /\ [](\A p \in PIDS :
            (SentQuit(p) /\ NoUnitFails /\ Len(worker_func) - runtime[p].quit_at >= 2) =>
               /\ runtime[p].pos <= runtime[p].quit_at + 1
               /\ runtime[p].pos < Len(worker_func)
               /\ Exited(p) => (runtime[p].code = 0 /\ runtime[p].got = 1))
    /\ \A p \in PIDS : (SentQuit(p) /\ ~Exited(p)) ~> Exited(p)

\* A worker was sent the byte after its first unit of three, while it was
\* about to advance: it advanced one further unit, read the byte and exited.
C14_StoppedAfterOneMoreUnit ==
    /\ Len(worker_func) = 3
    /\ NoUnitFails
    /\ \E p \in DOMAIN runtime :
          /\ runtime[p].pc = "exited"
          /\ runtime[p].code = 0
          /\ runtime[p].quit_at = 1
          /\ runtime[p].pos = 2
          /\ runtime[p].got = 1

(* C15: a worker whose sequence yields exactly k units, none failing, and   *)
(* that is not sent the control byte advances k units and exits with        *)
(* status 0, for every k from 0 on; and it does terminate.                  *)
C15_NaturalCompletion ==
    /\ [](\A p \in PIDS :
            (p \in DOMAIN runtime /\ NoUnitFails /\ ~SentQuit(p)) =>
               /\ runtime[p].pos <= Len(worker_func)
               /\ Exited(p) => /\ runtime[p].code = 0
                               /\ runtime[p].pos = Len(worker_func)
                               /\ runtime[p].got = 0)
    /\ \A p \in PIDS :
          (p \in DOMAIN runtime /\ ~Exited(p)) ~> Exited(p)

\* A worker has completed a sequence of three units and exited with status 0
\* without a byte ever written to its pipe.
C15_ThreeUnitsDone ==
    /\ worker_func = <<"unit", "unit", "unit">>
    /\ \E p \in DOMAIN runtime :
          /\ runtime[p].pc = "exited"
          /\ runtime[p].code = 0
          /\ runtime[p].pos = 3
          /\ workers[p] = Fresh

----------------------------------------------------------------------------
\* This step is worker p's call of next() on a unit that raises.
UnitFails(p) ==
    /\ p \in DOMAIN runtime
    /\ runtime[p].pc = "next"
    /\ runtime[p].pos < Len(worker_func)
    /\ worker_func[runtime[p].pos + 1] = "raise"
    /\ runtime'[p].pc # "next"

\* Children that exited with sys.exit(-1) and have not been reaped.
Failed == {p \in DOMAIN runtime : runtime[p].pc = "exited" /\ runtime[p].code = ExitFailure}

\* A unit that raises ends its worker only: the worker exits with a
\* non-zero status at the position it had, the master's status, num_workers,
\* registry and signal pipe are untouched and a SIGCHLD is pending; a worker
\* that has exited advances no further.
FailureIsLocal ==
    [][ \A p \in PIDS :
          /\ UnitFails(p) =>
                /\ runtime'[p].pc = "exited"
                /\ runtime'[p].code # 0
                /\ runtime'[p].pos = runtime[p].pos
                /\ procs' = [procs EXCEPT ![p] = "zombie"]
                /\ sigchld'
                /\ UNCHANGED <<status, num_workers, workers, sigpipe, pc>>
          /\ (Exited(p) /\ p \in DOMAIN runtime') =>
                (runtime'[p] = runtime[p] \/ (Forked(p) /\ runtime'[p] = NewRuntime)) ]_vars

(* C16 as stated: a unit that raises ends its worker only (no further       *)
(* advancement, non-zero exit status, status and num_workers unchanged),    *)
(* and the child-exited dispatch that reaps the failed worker while         *)
(* status is running spawns a replacement.                                  *)
C16_FailureLocalAndReplaced ==
    /\ FailureIsLocal
    /\ [][ (ReadsChld /\ status = "running" /\ Failed # {}) =>
              /\ \A p \in Failed : p \notin DOMAIN workers' \/ Forked(p)
              /\ \E p \in DOMAIN workers' : Forked(p) /\ workers'[p] = Fresh ]_vars

(* C16 amended: a unit that raises ends its worker only, and the            *)
(* child-exited dispatch that reaps the failed worker while status is       *)
(* running refills the registry to num_workers: it spawns a replacement     *)
(* exactly when fewer than num_workers records survive the reap.            *)
C16_FailureLocalAndRefilled ==
    /\ FailureIsLocal
    /\ [][ (ReadsChld /\ status = "running" /\ Failed # {}) =>
              LET survivors == DOMAIN workers \ Zombies(procs)
              IN  /\ \A p \in Failed : p \notin DOMAIN workers' \/ Forked(p)
                  /\ Cardinality(DOMAIN workers')
                        = Max(num_workers, Cardinality(survivors))
                  /\ (Cardinality(survivors) < num_workers) <=>
                        (\E p \in DOMAIN workers' : Forked(p) /\ workers'[p] = Fresh) ]_vars

\* The only worker, itself spawned by an earlier reap, has advanced one unit
\* and exited with a non-zero status on the second; the master runs on.
C16_ReplacementFailedToo ==
    /\ worker_func = <<"unit", "raise">>
    /\ arg = 1
    /\ status = "running"
    /\ pc = "loop"
    /\ msg = Line("SIGCHLD", MasterPid)
    /\ \E p \in DOMAIN runtime :
          /\ runtime[p].pc = "exited"
          /\ runtime[p].code = ExitFailure
          /\ runtime[p].pos = 1
          /\ workers[p] = Fresh

====
